---- MODULE Spec2Model ----
(***************************************************************************)
(* Virtual Plant (src/plant.js): the time-stepped simulation of one plant  *)
(* (hydration, health, growth, life stage), the water / sunlight / reset   *)
(* actions and the persisted record.                                       *)
(*                                                                         *)
(* Numbers.  The JavaScript code computes with reals (IEEE doubles).  The  *)
(* model computes with exact rationals [num, den] in lowest terms, so that *)
(* 70 - 8 = 62 and 85 + 10*(62-55)/55 = 949/11 are exact.                  *)
(*                                                                         *)
(* Time.  Instants are milliseconds, as in the code.  The clock readings   *)
(* the model draws are whole multiples of Quantum (15 minutes); all the    *)
(* nowMs() calls of one synchronous handler run read the same instant.     *)
(* A reading may be earlier than a previous one (clock skew).              *)
(***************************************************************************)
EXTENDS Integers, Sequences, FiniteSets, TLC

(***************************************************************************)
(* Exact rational arithmetic                                               *)
(***************************************************************************)
Abs(i) == IF i < 0 THEN -i ELSE i

RECURSIVE GCD(_, _)
GCD(a, b) == IF b = 0 THEN a ELSE GCD(b, a % b)

\* n/d in lowest terms with a positive denominator (d # 0)
Rat(n, d) ==
    LET s == IF d < 0 THEN -1 ELSE 1
        g == GCD(Abs(n), Abs(d))
    IN  [num |-> (s * n) \div g, den |-> (s * d) \div g]

R(i) == [num |-> i, den |-> 1]

QAdd(x, y) ==
    LET g == GCD(x.den, y.den)
    IN  Rat(x.num * (y.den \div g) + y.num * (x.den \div g), (x.den \div g) * y.den)

QMul(x, y) ==
    LET g1 == GCD(Abs(x.num), y.den)
        g2 == GCD(Abs(y.num), x.den)
    IN  IF x.num = 0 \/ y.num = 0 THEN R(0)
        ELSE [num |-> (x.num \div g1) * (y.num \div g2),
              den |-> (x.den \div g2) * (y.den \div g1)]

QLe(x, y) ==
    LET g == GCD(x.den, y.den)
    IN  x.num * (y.den \div g) <= y.num * (x.den \div g)

(***************************************************************************)
(* JavaScript values of the numeric fields: a finite number (a rational),  *)
(* NaN, undefined (a property the object does not have) or null (what      *)
(* JSON.parse returns for the token null).  The operators are the          *)
(* JavaScript ones: operands go through ToNumber, NaN propagates, every    *)
(* comparison with NaN is false, Math.max and Math.min return NaN if an    *)
(* argument is NaN.                                                        *)
(***************************************************************************)
NaN == [js |-> "NaN"]

Undefined == [js |-> "undefined"]

Null == [js |-> "null"]

IsNum(x) == "num" \in DOMAIN x

\* ToNumber: undefined is NaN, null is 0
ToNumber(x) == IF IsNum(x) THEN x ELSE IF x = Null THEN R(0) ELSE NaN

RAdd(x, y) ==
    LET a == ToNumber(x)
        b == ToNumber(y)
    IN  IF IsNum(a) /\ IsNum(b) THEN QAdd(a, b) ELSE NaN

RNeg(x) ==
    LET a == ToNumber(x)
    IN  IF IsNum(a) THEN [num |-> -a.num, den |-> a.den] ELSE NaN

RSub(x, y) == RAdd(x, RNeg(y))

RMul(x, y) ==
    LET a == ToNumber(x)
        b == ToNumber(y)
    IN  IF IsNum(a) /\ IsNum(b) THEN QMul(a, b) ELSE NaN

\* x / y; the code divides by non-zero numbers only
RDiv(x, y) ==
    LET a == ToNumber(x)
        b == ToNumber(y)
    IN  IF IsNum(a) /\ IsNum(b) THEN QMul(a, Rat(b.den, b.num)) ELSE NaN

RLe(x, y) ==
    LET a == ToNumber(x)
        b == ToNumber(y)
    IN  IsNum(a) /\ IsNum(b) /\ QLe(a, b)

RLt(x, y) ==
    LET a == ToNumber(x)
        b == ToNumber(y)
    IN  IsNum(a) /\ IsNum(b) /\ ~QLe(b, a)

RMax(x, y) ==
    LET a == ToNumber(x)
        b == ToNumber(y)
    IN  IF IsNum(a) /\ IsNum(b) THEN (IF QLe(a, b) THEN b ELSE a) ELSE NaN

RMin(x, y) ==
    LET a == ToNumber(x)
        b == ToNumber(y)
    IN  IF IsNum(a) /\ IsNum(b) THEN (IF QLe(a, b) THEN a ELSE b) ELSE NaN

(***************************************************************************)
(* Constants of the program                                                *)
(***************************************************************************)
\* STAGES[i].need, index 0..5 of the code is index 1..6 here
STAGES == <<0, 15, 45, 90, 150, 230>>

BASE_GROWTH_PER_HOUR == 6

\* 1000*60*60 in tick
MS_PER_HOUR == 1000 * 60 * 60

\* 1000*60*30 in the sunlight handler
SUN_BOOST_MS == 1000 * 60 * 30

(***************************************************************************)
(* Bounds of the model                                                     *)
(***************************************************************************)
\* handler runs (timer ticks and clicks) after startup
MaxSteps == 2

\* the clock resolution of the model, in ms (15 minutes)
Quantum == 15 * 60 * 1000

\* largest whole growth value the stage function is tabulated on
MaxGrowth == 240

\* clock readings, in quanta: T, T+15min, T+30min, T+1h for T = 1
ClockQuanta == {1, 2, 3, 5}

Times == {q * Quantum : q \in ClockQuanta}

(***************************************************************************)
(* Pure functions of the program                                           *)
(***************************************************************************)
\* clamp with the Math.max(a, ...) forgotten
clampNoFloor(n, a, b) == RMin(b, n)

clamp(n, a, b) == RMax(a, RMin(b, n))

\* a new plant that keeps no record of when it was last ticked
newPlantNoTickTime(t) ==
    [createdAt |-> t, lastTickAt |-> 0, growth |-> R(0), hydration |-> R(70),
     health |-> R(85), lastActionAt |-> t, sunlightBoostUntil |-> 0]

newPlant(t) ==
    [createdAt |-> t, lastTickAt |-> t, growth |-> R(0), hydration |-> R(70),
     health |-> R(85), lastActionAt |-> t, sunlightBoostUntil |-> 0]

\* the loop with the comparison the wrong way round (growth < need)
RECURSIVE stageLoopFlipped(_, _, _)
stageLoopFlipped(growth, i, idx) ==
    IF i >= Len(STAGES) THEN idx
    ELSE stageLoopFlipped(growth, i + 1,
                          IF RLt(growth, R(STAGES[i + 1])) THEN i ELSE idx)

\* the loop with a strict comparison (growth > need)
RECURSIVE stageLoopStrict(_, _, _)
stageLoopStrict(growth, i, idx) ==
    IF i >= Len(STAGES) THEN idx
    ELSE stageLoopStrict(growth, i + 1,
                         IF RLt(R(STAGES[i + 1]), growth) THEN i ELSE idx)

\* for(i = 0; i < STAGES.length; i++) if(growth >= STAGES[i].need) idx = i
RECURSIVE stageLoop(_, _, _)
stageLoop(growth, i, idx) ==
    IF i >= Len(STAGES) THEN idx
    ELSE stageLoop(growth, i + 1, IF RLe(R(STAGES[i + 1]), growth) THEN i ELSE idx)

stageFromGrowth(growth) == stageLoop(growth, 0, 0)

(***************************************************************************)
(* tick(state, timeScale), src/plant.js 76-108, one operator per statement *)
(***************************************************************************)
\* the elapsed time without Math.max(0, ...)
tickHoursNoClamp(state, t, timeScale) ==
    Rat((t - state.lastTickAt) * timeScale, MS_PER_HOUR)

\* dtMs / (1000*60*60), with dtMs = Math.max(0, t - state.lastTickAt) * timeScale
tickHours(state, t, timeScale) ==
    LET d == t - state.lastTickAt
        dtMs == (IF d > 0 THEN d ELSE 0) * timeScale
    IN  Rat(dtMs, MS_PER_HOUR)

\* state.hydration = clamp(state.hydration - (hours * 8), 0, 100)
decayHydration(hydration, hours) ==
    clamp(RSub(hydration, RMul(hours, R(8))), R(0), R(100))

\* delta = (hydrationTarget - 55) / 55; health = clamp(health + hours*(delta*10), 0, 100)
\* hydrationTarget is the hydration already decayed by this tick
trendHealth(health, hydrationTarget, hours) ==
    LET delta == RDiv(RSub(hydrationTarget, R(55)), R(55))
    IN  clamp(RAdd(health, RMul(hours, RMul(delta, R(10)))), R(0), R(100))

\* the boost still on at the instant it expires (t <= sunlightBoostUntil)
sunBoostAtInclusive(t, sunlightBoostUntil) ==
    IF t <= sunlightBoostUntil THEN Rat(135, 100) ELSE R(1)

\* sunBoost = (t < state.sunlightBoostUntil) ? 1.35 : 1.0
sunBoostAt(t, sunlightBoostUntil) ==
    IF t < sunlightBoostUntil THEN Rat(135, 100) ELSE R(1)

\* a hydration factor that never falls below 0.1
growthRateNeverStalls(hydration, health, sunBoost) ==
    LET hydrationFactor == clamp(RDiv(hydration, R(80)), Rat(1, 10), Rat(12, 10))
        healthFactor == clamp(RDiv(health, R(85)), R(0), Rat(12, 10))
    IN  RMul(RMul(RMul(R(BASE_GROWTH_PER_HOUR), hydrationFactor), healthFactor), sunBoost)

\* rate = BASE_GROWTH_PER_HOUR * hydrationFactor * healthFactor * sunBoost
growthRate(hydration, health, sunBoost) ==
    LET hydrationFactor == clamp(RDiv(hydration, R(80)), R(0), Rat(12, 10))
        healthFactor == clamp(RDiv(health, R(85)), R(0), Rat(12, 10))
    IN  RMul(RMul(RMul(R(BASE_GROWTH_PER_HOUR), hydrationFactor), healthFactor), sunBoost)

\* growth overwritten by the increment instead of accumulated
growOverwrite(growth, hours, rate) == RMax(R(0), RMul(hours, rate))

\* state.growth = Math.max(0, state.growth + hours * rate)
grow(growth, hours, rate) == RMax(R(0), RAdd(growth, RMul(hours, rate)))

\* the health trend computed from the hydration the tick started with
tickLocalsStaleHydration(state, t, timeScale) ==
    LET hours == tickHours(state, t, timeScale)
        hydration == decayHydration(state.hydration, hours)
        health == trendHealth(state.health, state.hydration, hours)
        sunBoost == sunBoostAt(t, state.sunlightBoostUntil)
        rate == growthRate(hydration, health, sunBoost)
    IN  [t |-> t, hours |-> hours, hydration |-> hydration, health |-> health,
         sunBoost |-> sunBoost, rate |-> rate,
         growth |-> grow(state.growth, hours, rate)]

\* the growth rate taken from the hydration and health the interval began with
tickLocalsRateFromStart(state, t, timeScale) ==
    LET hours == tickHours(state, t, timeScale)
        hydration == decayHydration(state.hydration, hours)
        health == trendHealth(state.health, hydration, hours)
        sunBoost == sunBoostAt(t, state.sunlightBoostUntil)
        rate == growthRate(state.hydration, state.health, sunBoost)
    IN  [t |-> t, hours |-> hours, hydration |-> hydration, health |-> health,
         sunBoost |-> sunBoost, rate |-> rate,
         growth |-> grow(state.growth, hours, rate)]

\* the values tick computes, in the order it computes them
tickLocals(state, t, timeScale) ==
    LET hours == tickHours(state, t, timeScale)
        hydration == decayHydration(state.hydration, hours)
        health == trendHealth(state.health, hydration, hours)
        sunBoost == sunBoostAt(t, state.sunlightBoostUntil)
        rate == growthRate(hydration, health, sunBoost)
    IN  [t |-> t, hours |-> hours, hydration |-> hydration, health |-> health,
         sunBoost |-> sunBoost, rate |-> rate,
         growth |-> grow(state.growth, hours, rate)]

\* the assignments tick makes to state, v being the values it computed
tickAssignTouchesAction(state, v) ==
    [state EXCEPT !.lastTickAt = v.t, !.lastActionAt = v.t, !.hydration = v.hydration,
                  !.health = v.health, !.growth = v.growth]

tickAssign(state, v) ==
    [state EXCEPT !.lastTickAt = v.t, !.hydration = v.hydration,
                  !.health = v.health, !.growth = v.growth]

tick(state, t, timeScale) == tickAssign(state, tickLocals(state, t, timeScale))

(***************************************************************************)
(* The adjustments of the click handlers, and the persistence port         *)
(***************************************************************************)
\* watering without the clamp
waterAdjustNoClamp(state, t) ==
    [state EXCEPT !.hydration = RAdd(state.hydration, R(25)),
                  !.health = RAdd(state.health, R(4)),
                  !.lastActionAt = t]

\* watering that also restarts the tick clock, so that the tick it runs
\* integrates no time
waterAdjustStampsTick(state, t) ==
    [state EXCEPT !.hydration = clamp(RAdd(state.hydration, R(25)), R(0), R(100)),
                  !.health = clamp(RAdd(state.health, R(4)), R(0), R(100)),
                  !.lastActionAt = t, !.lastTickAt = t]

\* waterBtn click, before doTick()
waterAdjust(state, t) ==
    [state EXCEPT !.hydration = clamp(RAdd(state.hydration, R(25)), R(0), R(100)),
                  !.health = clamp(RAdd(state.health, R(4)), R(0), R(100)),
                  !.lastActionAt = t]

\* sunBtn click, before doTick()
sunAdjust(state, t) ==
    [state EXCEPT !.sunlightBoostUntil = t + SUN_BOOST_MS,
                  !.health = clamp(RAdd(state.health, R(2)), R(0), R(100)),
                  !.lastActionAt = t]

\* scale = fastMode.checked ? 60 : 1
scaleOf(fast) == IF fast THEN 60 ELSE 1

(***************************************************************************)
(* The persistence port.  The store holds <<>> (no item under LS_KEY) or   *)
(* <<text>>.  A text is modelled by what JSON.parse makes of it:           *)
(*   kind "object"  the text of an object, fields = its members;           *)
(*   kind "null"    the text null;                                         *)
(*   kind "empty"   the empty string;                                      *)
(*   kind "garbage" a text JSON.parse throws on.                           *)
(* A member is a JSON number or the token null.  JSON.stringify writes a   *)
(* finite number as the shortest decimal that reads back as the same       *)
(* number, NaN as null, and leaves out a member whose value is undefined.  *)
(* The four instants are whole numbers in every record of the model.       *)
(***************************************************************************)
TimeFields == {"createdAt", "lastTickAt", "lastActionAt", "sunlightBoostUntil"}

NumFields == {"growth", "hydration", "health"}

\* JSON.stringify(state)
JSONstringify(state) ==
    [kind |-> "object",
     fields |-> [f \in {g \in TimeFields \cup NumFields :
                            g \in TimeFields \/ state[g] # Undefined} |->
                    IF f \in TimeFields THEN state[f]
                    ELSE IF state[f] = NaN THEN Null ELSE state[f]]]

\* JSON.parse(raw) for a text of kind "object": a property the text does not
\* have reads as undefined
JSONparse(text) ==
    [f \in TimeFields \cup NumFields |->
        IF f \in DOMAIN text.fields THEN text.fields[f] ELSE Undefined]

\* localStorage.setItem(LS_KEY, JSON.stringify(state)): the item stored
saveState(state) == <<JSONstringify(state)>>

\* loadState(): <<>> stands for null, <<v>> for the parsed value v
loadState(raw) ==
    IF Len(raw) = 0 THEN <<>>                       \* getItem gave null: !raw
    ELSE IF raw[1].kind = "empty" THEN <<>>         \* "" : !raw
    ELSE IF raw[1].kind = "garbage" THEN <<>>       \* JSON.parse throws: catch
    ELSE IF raw[1].kind = "null" THEN <<>>          \* JSON.parse gives null
    ELSE <<JSONparse(raw[1])>>

\* loadState() || newPlant()
loadOrNew(raw, t) ==
    LET v == loadState(raw)
    IN  IF Len(v) = 0 THEN newPlant(t) ELSE v[1]

(***************************************************************************)
(* What a previous session, or anything else writing to the store, may     *)
(* have left under LS_KEY                                                  *)
(***************************************************************************)
storedPlant(growth, hydration, health) ==
    [createdAt |-> Quantum, lastTickAt |-> Quantum, growth |-> R(growth),
     hydration |-> R(hydration), health |-> R(health), lastActionAt |-> Quantum,
     sunlightBoostUntil |-> 0]

\* nothing, or the record of a plant with every field in its range
StoredChoices ==
    { <<>>,
      saveState(storedPlant(14, 40, 50)),
      saveState(storedPlant(149, 100, 100)),
      saveState(storedPlant(229, 80, 85)),
      saveState(storedPlant(150, 5, 10)) }

NoFields == [f \in {} |-> 0]

\* texts that are not the record of a plant
MalformedChoices ==
    { <<[kind |-> "garbage", fields |-> NoFields]>>,
      <<[kind |-> "empty", fields |-> NoFields]>>,
      <<[kind |-> "null", fields |-> NoFields]>>,
      \* an object with hydration and health out of range
      saveState(storedPlant(14, 250, -20)),
      \* an object without growth, hydration and health
      <<[kind |-> "object",
         fields |-> [f \in TimeFields |-> IF f = "sunlightBoostUntil" THEN 0
                                          ELSE Quantum]]>> }

(***************************************************************************)
(* render(state): the status line and the two scenes (the newer plant.js)  *)
(***************************************************************************)
Min(a, b) == IF a < b THEN a ELSE b

\* STAGES[Math.min(idx+1, STAGES.length-1)].need
nextStageNeed(growth) ==
    STAGES[Min(stageFromGrowth(growth) + 1, Len(STAGES) - 1) + 1]

\* fmtDuration(ms): the text as the pieces of its template.  The argument is
\* carried as the rational sec = ms/1000, so that s = Math.floor(ms/1000) is
\* the floor of sec (the milliseconds of a long wait do not fit 32 bits)
fmtDuration(sec) ==
    LET s == sec.num \div sec.den
        m == s \div 60
        h == m \div 60
        d == h \div 24
    IN  IF d > 0 THEN <<d, "d ", h % 24, "h">>
        ELSE IF h > 0 THEN <<h, "h ", m % 60, "m">>
        ELSE IF m > 0 THEN <<m, "m">>
        ELSE <<s, "s">>

Infinity == [js |-> "Infinity"]

\* the rate render recomputes from the current hydration, health and boost
renderRate(state, now) ==
    growthRate(state.hydration, state.health, sunBoostAt(now, state.sunlightBoostUntil))

\* the stall test with the threshold itself on the growing side (rate >= 0.2)
hoursToNextInclusive(remaining, rate) ==
    IF RLe(Rat(2, 10), rate) THEN RDiv(remaining, rate) ELSE Infinity

\* hoursToNext = rate > 0.2 ? (remaining / rate) : Infinity
hoursToNext(remaining, rate) ==
    IF RLt(Rat(2, 10), rate) THEN RDiv(remaining, rate) ELSE Infinity

\* the text of the element 'next'
nextText(state, now) ==
    LET stageIdx == stageFromGrowth(state.growth)
        remaining == RMax(R(0), RSub(R(nextStageNeed(state.growth)), state.growth))
        hrs == hoursToNext(remaining, renderRate(state, now))
        eta == IF hrs = Infinity THEN "(needs care)"
               ELSE fmtDuration(RMul(hrs, R(3600)))
    IN  IF stageIdx = Len(STAGES) - 1 THEN "Max stage" ELSE eta

\* health 35 still counted in the middle band (health >= 35)
bandInclusive(health) ==
    IF RLt(R(60), health) THEN "lush"
    ELSE IF RLe(R(35), health) THEN "stressed" ELSE "wilting"

\* the band of the two nested conditionals: health > 60 ? .. : (health > 35 ? .. : ..)
band(health) ==
    IF RLt(R(60), health) THEN "lush"
    ELSE IF RLt(R(35), health) THEN "stressed" ELSE "wilting"

\* const green = ...
green(health) ==
    CASE band(health) = "lush" -> "#68e36b"
      [] band(health) = "stressed" -> "#b6df5a"
      [] OTHER -> "#d6c56b"

\* const dark = ...
dark(health) ==
    CASE band(health) = "lush" -> "#2ea84a"
      [] band(health) = "stressed" -> "#7aa63b"
      [] OTHER -> "#9a8e39"

\* px(x, y, color): one div of the pixel layer
px(x, y, color) == [x |-> x, y |-> y, color |-> color]

\* the pot: two rows of potColor, two of potDark
potPixels ==
    [k \in 1..16 |-> px(7 + ((k - 1) \div 2), 15 + ((k - 1) % 2), "#c56b3c")]
    \o [k \in 1..10 |-> px(5 + k, 17, "#9f4d24")]
    \o [k \in 1..8 |-> px(6 + k, 18, "#9f4d24")]

\* stemTop = 14 - Math.min(stageIdx*2, 10)
stemTopPx(stageIdx) == 14 - Min(stageIdx * 2, 10)

\* for(let y=14;y>=stemTop;y--) px(stemX,y,dark)
stemPixels(stageIdx, color) ==
    [k \in 1..(15 - stemTopPx(stageIdx)) |-> px(11, 15 - k, color)]

\* addLeaf(cx, cy, dir)
addLeaf(cx, cy, dir, c1) ==
    << px(cx, cy, c1), px(cx + dir, cy, c1), px(cx + 2 * dir, cy + 1, c1),
       px(cx + dir, cy + 1, c1) >>

\* the three leaf pairs of the pixel layer
leafPixels(stageIdx, c1) ==
    (IF stageIdx >= 2 THEN addLeaf(11, 12, -1, c1) \o addLeaf(11, 11, 1, c1) ELSE <<>>)
    \o (IF stageIdx >= 3 THEN addLeaf(11, 10, -1, c1) \o addLeaf(11, 9, 1, c1) ELSE <<>>)
    \o (IF stageIdx >= 4 THEN addLeaf(11, 8, -1, c1) \o addLeaf(11, 7, 1, c1) ELSE <<>>)

\* the flower on top of the stem
flowerPixels(stageIdx) ==
    LET topY == stemTopPx(stageIdx)
    IN  IF stageIdx >= 5
        THEN << px(11, topY - 1, "#ff7ad9"), px(10, topY, "#ff7ad9"),
                px(12, topY, "#ff7ad9"), px(11, topY + 1, "#ff7ad9") >>
        ELSE <<>>

\* the sparkle of a very healthy plant (the unclamped state.health)
sparklePixels(state) ==
    IF RLt(R(90), state.health) /\ RLt(R(70), state.hydration)
    THEN << px(3, 3, "#ffffff"), px(4, 3, "#6bd7ff"), px(3, 4, "#6bd7ff") >>
    ELSE <<>>

(***************************************************************************)
(* The xorshift32 generator of drawPlant.  A 32-bit word is kept as its    *)
(* two 16-bit halves [hi, lo], the bit pattern that seed holds.            *)
(***************************************************************************)
RECURSIVE xorBits(_, _, _)
xorBits(a, b, n) ==
    IF n = 0 THEN 0
    ELSE ((a + b) % 2) + 2 * xorBits(a \div 2, b \div 2, n - 1)

\* the operator ^ on two words
wordXor(v, w) == [hi |-> xorBits(v.hi, w.hi, 16), lo |-> xorBits(v.lo, w.lo, 16)]

\* v << k, for 0 < k < 16, kept to 32 bits
wordShl(v, k) ==
    LET p == 2 ^ k
        q == 2 ^ (16 - k)
    IN  [hi |-> (v.hi % q) * p + (v.lo \div q), lo |-> (v.lo % q) * p]

\* v >>> 17
wordShr17(v) == [hi |-> 0, lo |-> v.hi \div 2]

\* seed = Math.floor((state.createdAt || 0) / 1000) ^ 0x9e3779b9
seedOf(createdAt) ==
    LET v == IF createdAt \in Nat THEN createdAt \div 1000 ELSE 0
    IN  wordXor([hi |-> (v \div 65536) % 65536, lo |-> v % 65536],
                [hi |-> 40503, lo |-> 31161])

\* the three xorshift steps of rand(): the seed after the call
xorshift32(seed) ==
    LET a == wordXor(seed, wordShl(seed, 13))
        b == wordXor(a, wordShr17(a))
    IN  wordXor(b, wordShl(b, 5))

\* rand() < pct/100 for the value (seed >>> 0) / 4294967296 just drawn
randBelow(seed, pct) == seed.hi * 100 + ((seed.lo * 100) \div 65536) < pct * 65536

\* Math.floor(rand() * k) for the value just drawn
randFloor(seed, k) == (seed.hi * k + ((seed.lo * k) \div 65536)) \div 65536

\* clamp applied to a cell coordinate
clampCell(n, a, b) == IF n < a THEN a ELSE IF n > b THEN b ELSE n

\* one pass of the loop of drawVine; st = [i, seed, x, y, out]
vineStep(side, stageIdx, health, st) ==
    LET s1 == xorshift32(st.seed)
        x == clampCell(st.x + (IF randBelow(s1, 55) THEN side ELSE 0), 0, 21)
        s2 == xorshift32(s1)
        y == clampCell(st.y - (IF randBelow(s2, 75) THEN 1 ELSE 0), 0, 18)
        s3 == xorshift32(s2)
        hasLeaf == randBelow(s3, 33)
        s4 == IF hasLeaf THEN xorshift32(s3) ELSE s3
        leafPx == IF hasLeaf
                  THEN << px(clampCell(x + side, 0, 21),
                             clampCell(y + (IF randBelow(s4, 50) THEN 0 ELSE 1), 0, 19),
                             green(health)) >>
                  ELSE <<>>
        s5 == IF stageIdx >= 5 THEN xorshift32(s4) ELSE s4
        blossomPx == IF stageIdx >= 5 /\ randBelow(s5, 10)
                     THEN << px(clampCell(x, 0, 21), clampCell(y - 1, 0, 19), "#ff7ad9") >>
                     ELSE <<>>
    IN  [i |-> st.i + 1, seed |-> s5, x |-> x, y |-> y,
         out |-> st.out \o << px(x, y, dark(health)) >> \o leafPx \o blossomPx]

\* for(let i=0;i<length;i++){ ... }
RECURSIVE vineLoop(_, _, _, _, _)
vineLoop(side, stageIdx, health, length, st) ==
    IF st.i >= length THEN st
    ELSE vineLoop(side, stageIdx, health, length, vineStep(side, stageIdx, health, st))

\* drawVine(side), started with the generator at seed: the pixels it places
\* and the seed it leaves
drawVine(side, stageIdx, health, seed) ==
    LET s0 == xorshift32(seed)
        length == 10 + randFloor(s0, 6) + (IF stageIdx >= 5 THEN 4 ELSE 0)
    IN  vineLoop(side, stageIdx, health, length,
                 [i |-> 0, seed |-> s0, x |-> 11 + side, y |-> 12, out |-> <<>>])

\* if(stageIdx >= 4){ drawVine(-1); drawVine(1); }
vinePixels(stageIdx, state, health) ==
    IF stageIdx >= 4
    THEN LET left == drawVine(-1, stageIdx, health, seedOf(state.createdAt))
         IN  left.out \o drawVine(1, stageIdx, health, left.seed).out
    ELSE <<>>

\* drawPlant(stageIdx, state): the divs appended to the pixel layer, in order
drawPlant(stageIdx, state) ==
    LET health == clamp(state.health, R(0), R(100))
    IN  potPixels \o stemPixels(stageIdx, dark(health))
        \o leafPixels(stageIdx, green(health))
        \o vinePixels(stageIdx, state, health)
        \o flowerPixels(stageIdx) \o sparklePixels(state)

(***************************************************************************)
(* drawAsciiPlant: the grid of W x H characters, a function of the cell    *)
(* <<x, y>>, and the writes put() makes to it                              *)
(***************************************************************************)
\* const W = 32, H = 18
W == 32

H == 18

blankGrid == [c \in (0..(W - 1)) \X (0..(H - 1)) |-> " "]

\* a write that does not test the position
putUnguarded(grid, x, y, ch) == (<<x, y>> :> ch) @@ grid

\* put(x, y, ch): if(x<0||y<0||x>=W||y>=H) return; grid[y][x] = ch
put(grid, x, y, ch) ==
    IF x < 0 \/ y < 0 \/ x >= W \/ y >= H THEN grid
    ELSE [grid EXCEPT ![<<x, y>>] = ch]

\* the calls put(x, y, ch) of a list w of <<x, y, ch>>, made in order;
\* st = [k, grid], k the number of calls made
RECURSIVE putAll(_, _)
putAll(w, st) ==
    IF st.k >= Len(w) THEN st.grid
    ELSE putAll(w, [k |-> st.k + 1,
                    grid |-> put(st.grid, w[st.k + 1][1], w[st.k + 1][2], w[st.k + 1][3])])

\* pot and ground, potTopY = 13
potPuts ==
    [k \in 1..8 |-> <<11 + k, 13, "_">>]
    \o << <<11, 14, "/">> >> \o [k \in 1..8 |-> <<11 + k, 14, " ">>] \o << <<20, 14, "\\">> >>
    \o << <<11, 15, "|">> >> \o [k \in 1..8 |-> <<11 + k, 15, "#">>] \o << <<20, 15, "|">> >>
    \o << <<12, 16, "\\">> >> \o [k \in 1..6 |-> <<12 + k, 16, "_">>] \o << <<19, 16, "/">> >>

\* stemTop = 11 - Math.min(stageIdx*2, 8)
stemTopAscii(stageIdx) == 11 - Min(stageIdx * 2, 8)

\* for(let y=12; y>=stemTop; y--) put(stemX,y,'|')
stemPuts(stageIdx) == [k \in 1..(13 - stemTopAscii(stageIdx)) |-> <<16, 13 - k, "|">>]

\* leaf(y, dir)
leaf(y, dir) == << <<16 + dir, y, IF dir < 0 THEN "<" ELSE ">">>, <<16 + dir * 2, y, "-">> >>

\* the leaf pairs at the stages of the pixel layer (stageIdx >= 2, 3, 4)
leafPutsAsPixels(stageIdx) ==
    (IF stageIdx >= 2 THEN leaf(11, -1) \o leaf(10, 1) ELSE <<>>)
    \o (IF stageIdx >= 3 THEN leaf(9, -1) \o leaf(8, 1) ELSE <<>>)
    \o (IF stageIdx >= 4 THEN leaf(7, -1) \o leaf(6, 1) ELSE <<>>)

\* the three leaf pairs of the text layer
leafPuts(stageIdx) ==
    (IF stageIdx >= 1 THEN leaf(11, -1) \o leaf(10, 1) ELSE <<>>)
    \o (IF stageIdx >= 2 THEN leaf(9, -1) \o leaf(8, 1) ELSE <<>>)
    \o (IF stageIdx >= 3 THEN leaf(7, -1) \o leaf(6, 1) ELSE <<>>)

\* seeded = Math.floor((state.createdAt||0)/1000)
seeded(createdAt) == IF createdAt \in Nat THEN createdAt \div 1000 ELSE 0

\* one pass of the loop of curl; st = [i, x, y, out]
curlStep(side, st) ==
    LET x == IF st.i % 2 = 0 THEN st.x + side ELSE st.x
        y == IF st.i % 3 # 0 THEN st.y - 1 ELSE st.y
    IN  [i |-> st.i + 1, x |-> x, y |-> y,
         out |-> st.out \o << <<x, y, IF side < 0 THEN "/" ELSE "\\">> >>
                 \o (IF st.i % 4 = 0 THEN << <<x + side, y, "*">> >> ELSE <<>>)]

RECURSIVE curlLoop(_, _, _)
curlLoop(side, len, st) ==
    IF st.i >= len THEN st ELSE curlLoop(side, len, curlStep(side, st))

\* curl(side): the calls of put it makes
curl(side, stageIdx, createdAt) ==
    LET len == 8 + (IF stageIdx >= 4 THEN 6 ELSE 0) + (seeded(createdAt) % 4)
    IN  curlLoop(side, len, [i |-> 0, x |-> 16 + side, y |-> 10, out |-> <<>>]).out

\* if(stageIdx>=4){ curl(-1); curl(1); }
curlPuts(stageIdx, createdAt) ==
    IF stageIdx >= 4 THEN curl(-1, stageIdx, createdAt) \o curl(1, stageIdx, createdAt)
    ELSE <<>>

\* the flower of the text layer
flowerPuts(stageIdx) ==
    LET stemTop == stemTopAscii(stageIdx)
    IN  IF stageIdx >= 5
        THEN << <<16, stemTop - 1, "@">>, <<15, stemTop, "(">>, <<17, stemTop, ")">> >>
        ELSE <<>>

\* `VIRTUAL PLANT  stage:${stageIdx+1}/${STAGES.length}`, character by character
title(stageIdx) ==
    << "V", "I", "R", "T", "U", "A", "L", " ", "P", "L", "A", "N", "T", " ", " ",
       "s", "t", "a", "g", "e", ":" >>
    \o << <<"1", "2", "3", "4", "5", "6">>[stageIdx + 1], "/", "6" >>

\* for(let i=0;i<Math.min(W,title.length);i++) grid[0][i]=title[i]
titleWrite(stageIdx) ==
    [i \in 0..(Min(W, Len(title(stageIdx))) - 1) |-> title(stageIdx)[i + 1]]

\* every call of put, in the order drawAsciiPlant makes them
asciiPuts(stageIdx, state) ==
    potPuts \o stemPuts(stageIdx) \o leafPuts(stageIdx)
    \o curlPuts(stageIdx, state.createdAt) \o flowerPuts(stageIdx)

\* drawAsciiPlant(stageIdx, state, enabled): the grid behind out.textContent
\* (the empty function when the layer is disabled)
drawAsciiPlant(stageIdx, state, enabled) ==
    IF ~enabled THEN << >>
    ELSE LET grid == putAll(asciiPuts(stageIdx, state), [k |-> 0, grid |-> blankGrid])
             t == titleWrite(stageIdx)
         IN  [c \in DOMAIN grid \cup {<<i, 0>> : i \in DOMAIN t} |->
                 IF c[2] = 0 /\ c[1] \in DOMAIN t THEN t[c[1]] ELSE grid[c]]

(***************************************************************************)
(* State                                                                   *)
(***************************************************************************)
VARIABLES
    state,      \* the PlantState held by main()
    stored,     \* the localStorage item LS_KEY
    msg,        \* the text of the #msg element
    steps,      \* handler runs so far (bounds the model)
    sunAt,      \* instant of the last sunlight click since the last reset, -1 if none
    obs         \* what the last handler run did: its inputs and intermediate values

vars == <<state, stored, msg, steps, sunAt, obs>>

\* main(): state = loadState() || newPlant(); doTick(); setInterval(doTick, 10000)
\* with the store holding one of the items of Store when the page opens
InitFrom(Store) ==
    \E raw \in Store, t \in Times, fast \in BOOLEAN :
        LET loaded == loadOrNew(raw, t)
            tk == tickLocals(loaded, t, scaleOf(fast))
        IN  /\ state = tickAssign(loaded, tk)
            /\ stored = saveState(state)
            /\ msg = ""
            /\ steps = 0
            /\ sunAt = -1
            /\ obs = [op |-> "main", t |-> t, timeScale |-> scaleOf(fast),
                      raw |-> raw, pre |-> loaded, mid |-> loaded, tk |-> tk]

Init == InitFrom(StoredChoices)

\* a timer tick working on the plant it read before the latest handler ran
DoTickStale ==
    /\ steps < MaxSteps
    /\ \E t \in Times, fast \in BOOLEAN :
        LET tk == tickLocals(obs.pre, t, scaleOf(fast))
        IN  /\ state' = tickAssign(obs.pre, tk)
            /\ obs' = [op |-> "tick", t |-> t, timeScale |-> scaleOf(fast),
                       pre |-> obs.pre, mid |-> obs.pre, tk |-> tk]
    /\ stored' = saveState(state')
    /\ steps' = steps + 1
    /\ UNCHANGED <<msg, sunAt>>

\* doTick fired by the interval timer
DoTick ==
    /\ steps < MaxSteps
    /\ \E t \in Times, fast \in BOOLEAN :
        LET tk == tickLocals(state, t, scaleOf(fast))
        IN  /\ state' = tickAssign(state, tk)
            /\ obs' = [op |-> "tick", t |-> t, timeScale |-> scaleOf(fast),
                       pre |-> state, mid |-> state, tk |-> tk]
    /\ stored' = saveState(state')
    /\ steps' = steps + 1
    /\ UNCHANGED <<msg, sunAt>>

\* waterBtn click handler
Water ==
    /\ steps < MaxSteps
    /\ \E t \in Times, fast \in BOOLEAN :
        LET mid == waterAdjust(state, t)
            tk == tickLocals(mid, t, scaleOf(fast))
        IN  /\ state' = tickAssign(mid, tk)
            /\ obs' = [op |-> "water", t |-> t, timeScale |-> scaleOf(fast),
                       pre |-> state, mid |-> mid, tk |-> tk]
    /\ msg' = "Watered."
    /\ stored' = saveState(state')
    /\ steps' = steps + 1
    /\ UNCHANGED sunAt

\* sunBtn click handler
Sun ==
    /\ steps < MaxSteps
    /\ \E t \in Times, fast \in BOOLEAN :
        LET mid == sunAdjust(state, t)
            tk == tickLocals(mid, t, scaleOf(fast))
        IN  /\ state' = tickAssign(mid, tk)
            /\ obs' = [op |-> "sun", t |-> t, timeScale |-> scaleOf(fast),
                       pre |-> state, mid |-> mid, tk |-> tk]
            /\ sunAt' = t
    /\ msg' = "Sunlight boost for 30 minutes."
    /\ stored' = saveState(state')
    /\ steps' = steps + 1

\* resetBtn click handler; confirm() may be declined
Reset ==
    /\ steps < MaxSteps
    /\ \E t \in Times, confirmed \in BOOLEAN :
        IF confirmed
        THEN /\ state' = newPlant(t)
             /\ stored' = saveState(state')
             /\ msg' = "New seed planted."
             /\ sunAt' = -1
             /\ obs' = [op |-> "reset", t |-> t, pre |-> state]
        ELSE /\ obs' = [op |-> "declined", t |-> t, pre |-> state]
             /\ UNCHANGED <<state, stored, msg, sunAt>>
    /\ steps' = steps + 1

Next == DoTick \/ Water \/ Sun \/ Reset

Spec == Init /\ [][Next]_vars

\* the same program opened on a store that may hold anything
InitAnyStore == InitFrom(StoredChoices \cup MalformedChoices)

SpecAnyStore == InitAnyStore /\ [][Next]_vars

(***************************************************************************)
(* stageFromGrowth as a pure function: the growth is drawn from the half   *)
(* points 0, 1/2, 1, ... MaxGrowth and render() derives the stage from it  *)
(***************************************************************************)
StageInputs == {Rat(k, 2) : k \in 0..(2 * MaxGrowth)}

InitStage ==
    /\ \E g \in StageInputs : state = [storedPlant(0, 70, 85) EXCEPT !.growth = g]
    /\ stored = saveState(state)
    /\ msg = ""
    /\ steps = 0
    /\ sunAt = -1
    /\ obs = [op |-> "input"]

\* render(state): stageIdx = stageFromGrowth(state.growth)
RenderStage ==
    /\ obs.op = "input"
    /\ obs' = [op |-> "stage", stageIdx |-> stageFromGrowth(state.growth)]
    /\ UNCHANGED <<state, stored, msg, steps, sunAt>>

NextStage == RenderStage

SpecStage == InitStage /\ [][NextStage]_vars

(***************************************************************************)
(* render as a pure function: the plant is drawn from a grid of growths,   *)
(* hydrations, healths and creation times, and render() is applied once    *)
(* to it, at an instant inside or after the sunlight boost, with the text  *)
(* layer on or off                                                         *)
(***************************************************************************)
RenderInputs ==
    { [createdAt |-> c, lastTickAt |-> c, lastActionAt |-> c,
       sunlightBoostUntil |-> 2 * Quantum, growth |-> g, hydration |-> hy, health |-> he] :
         c \in {0, 3000, 1234567},
         g \in {R(0), R(14), R(15), R(45), Rat(179, 2), R(90), R(150), R(229), R(230)},
         hy \in {R(16), R(70), R(100)},
         he \in {R(0), Rat(85, 6), R(34), R(35), R(36), R(60), R(61), R(90), R(100)} }

InitRender ==
    /\ state \in RenderInputs
    /\ stored = saveState(state)
    /\ msg = ""
    /\ steps = 0
    /\ sunAt = -1
    /\ obs = [op |-> "input"]

\* render(state) at the instant now, window.__asciiMode being enabled
Render ==
    /\ obs.op = "input"
    /\ \E now \in {Quantum, 3 * Quantum}, enabled \in BOOLEAN :
        LET stageIdx == stageFromGrowth(state.growth)
        IN  obs' = [op |-> "render", now |-> now, enabled |-> enabled,
                    stageIdx |-> stageIdx,
                    next |-> nextText(state, now),
                    ascii |-> drawAsciiPlant(stageIdx, state, enabled),
                    plant |-> drawPlant(stageIdx, state)]
    /\ UNCHANGED <<state, stored, msg, steps, sunAt>>

NextRender == Render

SpecRender == InitRender /\ [][NextRender]_vars

(***************************************************************************)
(* A neglected plant: the interval timer keeps firing doTick, the clock    *)
(* advancing by one period between two ticks, up to MaxHours on the clock; *)
(* nobody waters or resets, and the sunlight button is pressed at most     *)
(* once.  steps counts the timer ticks of the run.                         *)
(***************************************************************************)
MaxHours == 24

\* the clock time between two timer ticks of this run
Period == 8 * Quantum

\* doTick fired by the interval timer, one period after the previous tick
TickAdvancing ==
    /\ state.lastTickAt + Period <= MaxHours * MS_PER_HOUR
    /\ \E fast \in BOOLEAN :
        LET t == state.lastTickAt + Period
            tk == tickLocals(state, t, scaleOf(fast))
        IN  /\ state' = tickAssign(state, tk)
            /\ obs' = [op |-> "tick", t |-> t, timeScale |-> scaleOf(fast),
                       pre |-> state, mid |-> state, tk |-> tk]
    /\ stored' = saveState(state')
    /\ steps' = steps + 1
    /\ UNCHANGED <<msg, sunAt>>

\* sunBtn click handler, at the instant of the last tick or one period later
SunOnce ==
    /\ sunAt = -1
    /\ \E t \in {state.lastTickAt, state.lastTickAt + Period}, fast \in BOOLEAN :
        /\ t <= MaxHours * MS_PER_HOUR
        /\ LET mid == sunAdjust(state, t)
               tk == tickLocals(mid, t, scaleOf(fast))
           IN  /\ state' = tickAssign(mid, tk)
               /\ obs' = [op |-> "sun", t |-> t, timeScale |-> scaleOf(fast),
                          pre |-> state, mid |-> mid, tk |-> tk]
               /\ sunAt' = t
    /\ msg' = "Sunlight boost for 30 minutes."
    /\ stored' = saveState(state')
    /\ UNCHANGED steps

NextNeglect == TickAdvancing \/ SunOnce

\* the timer's callback runs: the steps of NextNeglect that count a timer
\* tick are those of TickAdvancing, and it is enabled when TickAdvancing is
TimerFires ==
    /\ state.lastTickAt + Period <= MaxHours * MS_PER_HOUR
    /\ steps' = steps + 1

\* setInterval(doTick, 10_000) fires for as long as the page is open
SpecNeglect == Init /\ [][NextNeglect]_vars /\ WF_steps(TimerFires)

(***************************************************************************)
(* Properties                                                              *)
(***************************************************************************)
InRange(x) == RLe(R(0), x) /\ RLe(x, R(100))

\* the handler runs that end with doTick()
Ticked == obs.op \in {"main", "tick", "water", "sun"}

\* C1: in every reachable state (after any sequence of timer ticks, water,
\* sunlight and reset, any elapsed time, time scale 1 or 60) hydration and
\* health are both within [0,100], in memory and in the persisted record.
C1_HydrationHealthInRange ==
    /\ InRange(state.hydration) /\ InRange(state.health)
    /\ InRange(stored[1].fields.hydration) /\ InRange(stored[1].fields.health)
    /\ Ticked => InRange(obs.mid.hydration) /\ InRange(obs.mid.health)

\* C1 witness: a fast-mode tick drained a wet plant to the floor 0 (the decay
\* asked for more than was there), and a water click hit the ceiling 100.
C1_Witness ==
    /\ obs.op = "water" /\ obs.timeScale = 60
    /\ obs.mid.hydration = R(100) /\ RLt(R(75), obs.pre.hydration)
    /\ state.hydration = R(0) /\ state.health = R(0)

\* C2: the growth after a tick is greater than or equal to the growth before
\* it, and the water and sunlight adjustments do not change growth.
C2_GrowthMonotone ==
    Ticked => /\ obs.mid.growth = obs.pre.growth
              /\ RLe(obs.mid.growth, state.growth)

\* C2 witness: a water click whose tick made an established plant grow.
C2_Witness ==
    /\ obs.op = "water"
    /\ RLe(R(100), obs.pre.growth)
    /\ RLt(obs.pre.growth, state.growth)

\* stageFromGrowth tabulated on the whole growth values 0..MaxGrowth
StageTable == [g \in 0..MaxGrowth |-> stageFromGrowth(R(g))]

\* C3: the stage index is monotonically non-decreasing in growth (g1 <= g2
\* implies stageFromGrowth(g1) <= stageFromGrowth(g2)); along any run the
\* stage index of the plant never decreases in a step that is not a reset,
\* and a step that leaves growth unchanged leaves the stage index unchanged.
C3_StageMonotone ==
    /\ \A g1, g2 \in 0..MaxGrowth : g1 <= g2 => StageTable[g1] <= StageTable[g2]
    /\ [][/\ obs'.op # "reset" =>
                stageFromGrowth(state'.growth) >= stageFromGrowth(state.growth)
          /\ state'.growth = state.growth =>
                stageFromGrowth(state'.growth) = stageFromGrowth(state.growth)]_vars

\* C3 witness: a handler run whose tick carried the plant into a later stage.
C3_Witness ==
    /\ Ticked
    /\ stageFromGrowth(obs.pre.growth) < stageFromGrowth(state.growth)

\* C4: for every growth >= 0 stageFromGrowth returns the largest index i
\* with STAGES[i].need <= growth, always in 0..5; a growth exactly equal to a
\* threshold yields that threshold's stage (150 gives Bushy, index 4).
C4_StageIsLargestReached ==
    obs.op = "stage" =>
        LET g == state.growth
            i == obs.stageIdx
        IN  /\ i \in 0..5
            /\ RLe(R(STAGES[i + 1]), g)
            /\ \A j \in 0..5 : RLe(R(STAGES[j + 1]), g) => j <= i
            /\ \A j \in 0..5 : g = R(STAGES[j + 1]) => i = j
            /\ g = R(150) => i = 4

\* C4 witness: the stage derived for a growth of exactly 150 is index 4.
C4_Witness ==
    obs.op = "stage" /\ state.growth = R(150) /\ obs.stageIdx = 4

\* C5: a tick whose elapsed time is 0 (the clock reading equals, or is
\* earlier than, lastTickAt) leaves hydration, health and growth exactly as
\* they were, at either time scale; of the fields only lastTickAt changes.
C5_ZeroElapsedTick ==
    (Ticked /\ obs.t <= obs.mid.lastTickAt) =>
        /\ state.hydration = obs.mid.hydration
        /\ state.health = obs.mid.health
        /\ state.growth = obs.mid.growth
        /\ state = [obs.mid EXCEPT !.lastTickAt = obs.t]

\* C5 witness: a timer tick in fast mode whose clock reading is earlier than
\* lastTickAt, on a plant that has water to lose.
C5_Witness ==
    /\ obs.op = "tick" /\ obs.timeScale = 60
    /\ obs.t < obs.mid.lastTickAt
    /\ RLt(R(0), obs.mid.hydration)

\* C6: lastTickAt never decreases over a tick, also when the clock returns
\* an instant earlier than the stored lastTickAt.
C6_LastTickAtMonotone ==
    [][obs'.op \in {"tick", "water", "sun"} =>
            state'.lastTickAt >= state.lastTickAt]_vars

\* C7: the water adjustment sets hydration to clamp(hydration+25, 0, 100),
\* health to clamp(health+4, 0, 100) and lastActionAt to the instant of the
\* click, and nothing else; lastActionAt still holds when the handler ends.
C7_WaterAdjustment ==
    obs.op = "water" =>
        LET hyd == RAdd(obs.pre.hydration, R(25))
            hea == RAdd(obs.pre.health, R(4))
        IN  /\ obs.mid.hydration = (IF RLe(hyd, R(100)) THEN hyd ELSE R(100))
            /\ obs.mid.health = (IF RLe(hea, R(100)) THEN hea ELSE R(100))
            /\ obs.mid.lastActionAt = obs.t
            /\ obs.mid = [obs.pre EXCEPT !.hydration = obs.mid.hydration,
                                         !.health = obs.mid.health,
                                         !.lastActionAt = obs.t]
            /\ state.lastActionAt = obs.t
            /\ (obs.pre.hydration = R(40) => obs.mid.hydration = R(65))
            /\ (RLt(R(75), obs.pre.hydration) => obs.mid.hydration = R(100))

\* C7 witness: watering a plant at hydration 40, health 50 gives 65 and 54.
C7_Witness ==
    /\ obs.op = "water"
    /\ obs.pre.hydration = R(40) /\ obs.pre.health = R(50)
    /\ obs.mid.hydration = R(65) /\ obs.mid.health = R(54)

\* the multiplier a tick at instant t must use when the last sunlight click
\* was at instant T: 1.35 strictly before T + 30 minutes, 1.0 from then on
BoostDue(t, T) == IF t < T + 30 * 60 * 1000 THEN Rat(27, 20) ELSE R(1)

\* C8: a sunlight click at instant T sets sunlightBoostUntil = T + 30 minutes
\* of wall-clock time at either time scale and health = clamp(health+2,0,100);
\* until the next sunlight click or reset every tick at t < T + 30 min grows
\* by hours * rate with the multiplier 1.35 in the rate, and every tick at
\* t >= T + 30 min with the multiplier 1.0.
C8_SunlightBoostWindow ==
    /\ obs.op = "sun" =>
          LET hea == RAdd(obs.pre.health, R(2))
          IN  /\ obs.mid.sunlightBoostUntil = obs.t + 30 * 60 * 1000
              /\ obs.mid.health = (IF RLe(hea, R(100)) THEN hea ELSE R(100))
              /\ sunAt = obs.t
    /\ sunAt >= 0 => state.sunlightBoostUntil = sunAt + 30 * 60 * 1000
    /\ (Ticked /\ sunAt >= 0) =>
          /\ obs.tk.sunBoost = BoostDue(obs.t, sunAt)
          /\ obs.tk.rate = RMul(growthRate(state.hydration, state.health, R(1)),
                                BoostDue(obs.t, sunAt))
          /\ state.growth = RAdd(obs.mid.growth, RMul(obs.tk.hours, obs.tk.rate))

\* C8 witness: a timer tick exactly 30 minutes after the sunlight click, half
\* an hour after the previous tick, grows the plant at multiplier 1.
C8_Witness ==
    /\ obs.op = "tick" /\ sunAt >= 0
    /\ obs.t = sunAt + 30 * 60 * 1000
    /\ obs.tk.sunBoost = R(1)
    /\ obs.tk.hours = Rat(1, 2)
    /\ RLt(obs.mid.growth, state.growth)

\* C9: a confirmed reset yields growth 0, hydration 70, health 85,
\* sunlightBoostUntil 0 (no boost at any clock reading > 0), createdAt =
\* lastTickAt = lastActionAt = the instant of the reset and stage index 0,
\* whatever the state before; the same record is persisted.
C9_ResetYieldsFreshPlant ==
    obs.op = "reset" =>
        /\ state = [createdAt |-> obs.t, lastTickAt |-> obs.t, growth |-> R(0),
                    hydration |-> R(70), health |-> R(85), lastActionAt |-> obs.t,
                    sunlightBoostUntil |-> 0]
        /\ \A t \in Times : t > 0 => sunBoostAt(t, state.sunlightBoostUntil) = R(1)
        /\ stageFromGrowth(state.growth) = 0
        /\ loadState(stored) = <<state>>

\* C9 witness: a reset of a plant in a late stage with a sunlight boost running.
C9_Witness ==
    /\ obs.op = "reset"
    /\ stageFromGrowth(obs.pre.growth) >= 4
    /\ obs.t < obs.pre.sunlightBoostUntil
    /\ obs.pre.createdAt # obs.t

\* C10: within one tick the health update uses the hydration already decayed
\* by that tick and the growth rate uses the updated hydration and health:
\* a fresh plant (growth 0, hydration 70, health 85, no boost) ticked over
\* exactly 1 hour at scale 1 ends with hydration 62, health 85 + 10*(62-55)/55
\* = 949/11 (not 85 + 10*(70-55)/55 = 965/11) and growth
\* 6 * (62/80) * ((949/11)/85) = 88257/18700 > 0.
C10_FreshPlantAfterOneHour ==
    (/\ obs.op = "tick" /\ obs.timeScale = 1
     /\ obs.t - obs.mid.lastTickAt = 60 * 60 * 1000
     /\ obs.mid.growth = R(0) /\ obs.mid.hydration = R(70) /\ obs.mid.health = R(85)
     /\ obs.mid.sunlightBoostUntil <= obs.t) =>
        /\ state.hydration = R(62)
        /\ state.health = RAdd(R(85), Rat(10 * (62 - 55), 55))
        /\ state.health # RAdd(R(85), Rat(10 * (70 - 55), 55))
        /\ state.growth = RMul(R(6), RMul(Rat(62, 80), RDiv(state.health, R(85))))
        /\ RLt(R(0), state.growth)

\* C10 witness: the fresh plant one hour after its creation, ticked by the timer.
C10_Witness ==
    /\ obs.op = "tick" /\ obs.timeScale = 1
    /\ obs.mid = newPlant(obs.mid.createdAt)
    /\ obs.t = obs.mid.createdAt + 60 * 60 * 1000
    /\ state.hydration = R(62) /\ state.health = Rat(949, 11)
    /\ state.growth = Rat(88257, 18700)

\* C11: at the end of every timer tick and every user action the persisted
\* record equals the in-memory state in every field: a load performed at
\* that point returns a state equal to the one in memory.
C11_PersistedEqualsMemory == loadState(stored) = <<state>>

\* a stored item that is the record of a plant: an object with all seven
\* fields, growth >= 0 and hydration and health in [0,100]
WellFormedItem(raw) ==
    /\ Len(raw) = 1
    /\ raw[1].kind = "object"
    /\ DOMAIN raw[1].fields = TimeFields \cup NumFields
    /\ \A f \in NumFields : IsNum(raw[1].fields[f])
    /\ RLe(R(0), raw[1].fields.growth)
    /\ InRange(raw[1].fields.hydration) /\ InRange(raw[1].fields.health)

\* C12: at startup, whenever the stored item is missing, unreadable or not a
\* well-formed record of a plant, the state main() starts from is a freshly
\* created plant; only a well-formed record is adopted as the state.
C12_MalformedStoreGivesFreshPlant ==
    obs.op = "main" =>
        IF WellFormedItem(obs.raw)
        THEN \A f \in TimeFields \cup NumFields : obs.pre[f] = obs.raw[1].fields[f]
        ELSE obs.pre = newPlant(obs.t)

\* C13: a tick leaves createdAt, lastActionAt and sunlightBoostUntil as it
\* found them (whatever ran the tick: main, the timer, water or sunlight), and
\* createdAt is the same after every operation other than a confirmed reset.
C13_TickFrame ==
    /\ Ticked =>
          /\ state.createdAt = obs.mid.createdAt
          /\ state.lastActionAt = obs.mid.lastActionAt
          /\ state.sunlightBoostUntil = obs.mid.sunlightBoostUntil
    /\ obs.op # "reset" => state.createdAt = obs.pre.createdAt

\* a timer tick over a positive time, at an instant other than the last
\* action's, while a sunlight boost is recorded
C13_Witness ==
    /\ obs.op = "tick"
    /\ RLt(R(0), obs.tk.hours)
    /\ obs.pre.lastActionAt # obs.t
    /\ obs.pre.sunlightBoostUntil > 0
    /\ state.lastTickAt = obs.t

\* C16 as stated: when a water or sunlight action completes, hydration,
\* health and growth are exactly what the adjustment set them to, whatever
\* time has passed since the previous tick and whatever the time scale.
C16_ActionTickIsZeroElapsed ==
    obs.op \in {"water", "sun"} =>
        /\ state.hydration = obs.mid.hydration
        /\ state.health = obs.mid.health
        /\ state.growth = obs.mid.growth

\* the hours a handler's tick integrates: the scaled time from the lastTickAt
\* the handler found to its clock reading
SinceLastTick == Rat((IF obs.t > obs.pre.lastTickAt THEN obs.t - obs.pre.lastTickAt ELSE 0)
                         * obs.timeScale, MS_PER_HOUR)

\* C16 amended: the tick a water or sunlight action runs integrates the
\* scaled time since the previous tick, starting from the adjusted values:
\* hydration ends as the adjusted hydration decayed by 8 per hour of that
\* time, growth never below the adjusted growth, and the three values equal
\* the adjustment's exactly when no time has passed since the previous tick.
C16_ActionTickIntegratesSinceLastTick ==
    obs.op \in {"water", "sun"} =>
        /\ obs.tk.hours = SinceLastTick
        /\ state.hydration =
              RMax(R(0), RSub(obs.mid.hydration, RMul(SinceLastTick, R(8))))
        /\ RLe(obs.mid.growth, state.growth)
        /\ obs.t <= obs.pre.lastTickAt =>
              /\ state.hydration = obs.mid.hydration
              /\ state.health = obs.mid.health
              /\ state.growth = obs.mid.growth
        /\ (obs.t > obs.pre.lastTickAt /\ RLt(R(0), obs.mid.hydration)) =>
              RLt(state.hydration, obs.mid.hydration)

\* a watering half an hour after the previous tick: the hydration it leaves
\* is below the hydration the adjustment set
C16_Witness ==
    /\ obs.op = "water"
    /\ obs.timeScale = 1
    /\ obs.tk.hours = Rat(1, 2)
    /\ obs.mid.hydration = R(100)
    /\ state.hydration = R(96)

\* C17: every handler runs on the state the previous handler left (the
\* timer tick after an action starts from what the action produced), and
\* after every handler the persisted record is the one written from the
\* state that handler left, never from values read earlier.
C17_NoLostUpdate ==
    /\ [](stored = saveState(state))
    /\ [][obs'.pre = state /\ stored' = saveState(state')]_vars

\* a timer tick over a positive time right after a watering
C17_Witness ==
    /\ obs.op = "tick"
    /\ msg = "Watered."
    /\ steps = 2
    /\ RLt(R(0), obs.tk.hours)
    /\ obs.pre.lastActionAt = obs.pre.lastTickAt
    /\ state.lastActionAt = obs.pre.lastActionAt

\* C15: every cell the renderer places lies inside the fixed canvas: the
\* pixel layer only holds cells with 0 <= x <= 21 and 0 <= y <= 19, and the
\* text layer only writes grid positions with 0 <= x < 32 and 0 <= y < 18
\* (title row, vines and curls included), at every stage and for every plant.
C15_CellsInsideCanvas ==
    obs.op = "render" =>
        /\ \A k \in DOMAIN obs.plant :
              obs.plant[k].x \in 0..21 /\ obs.plant[k].y \in 0..19
        /\ DOMAIN obs.ascii \subseteq (0..31) \X (0..17)

\* a plant at the last stage whose vine is held at the right and top edges
\* by the clamps, and whose curl of 17 steps runs off the top of the grid
C15_Witness ==
    /\ obs.op = "render"
    /\ obs.enabled
    /\ obs.stageIdx = 5
    /\ seeded(state.createdAt) % 4 = 3
    /\ \E k \in DOMAIN obs.plant :
          obs.plant[k].x = 21 /\ obs.plant[k].y = 0 /\ obs.plant[k].color = dark(state.health)
    /\ \E p \in DOMAIN curl(1, 5, state.createdAt) : curl(1, 5, state.createdAt)[p][2] < 0
    /\ obs.ascii[<<0, 0>>] = "V"

\* C18: the ETA shown is 'Max stage' whenever the stage is the last one,
\* whatever the rate; otherwise 'needs care' whenever the rate recomputed
\* from the current hydration, health and boost is <= 0.2 (0.2 included);
\* otherwise the duration of (nextThreshold - growth) / rate hours, the
\* remaining growth being never negative.
C18_EtaShown ==
    obs.op = "render" =>
        LET rate == growthRate(state.hydration, state.health,
                               sunBoostAt(obs.now, state.sunlightBoostUntil))
            last == Len(STAGES) - 1
            need == R(STAGES[Min(obs.stageIdx + 1, last) + 1])
        IN  /\ obs.stageIdx = last => obs.next = "Max stage"
            /\ (obs.stageIdx < last /\ RLe(rate, Rat(2, 10))) => obs.next = "(needs care)"
            /\ (obs.stageIdx < last /\ RLt(Rat(2, 10), rate)) =>
                  /\ RLt(state.growth, need)
                  /\ obs.next = fmtDuration(RMul(RDiv(RSub(need, state.growth), rate), R(3600)))

\* a plant below the last stage whose rate is exactly 0.2
\* (6 * 16/80 * (85/6)/85 with no boost): 'needs care'
C18_Witness ==
    /\ obs.op = "render"
    /\ obs.stageIdx = 3
    /\ renderRate(state, obs.now) = Rat(2, 10)
    /\ obs.next = "(needs care)"

\* the stem colour and the leaf colour of a band
StemColour(b) ==
    CASE b = "lush" -> "#2ea84a" [] b = "stressed" -> "#7aa63b" [] b = "wilting" -> "#9a8e39"

LeafColour(b) ==
    CASE b = "lush" -> "#68e36b" [] b = "stressed" -> "#b6df5a" [] b = "wilting" -> "#d6c56b"

\* the rendered scene shows the colour pair of band b: the foot of the stem,
\* cell (11, 14), has its stem colour and, from stage index 2 on, the leaf
\* cell (10, 13), which nothing else covers, has its leaf colour
ShowsBand(b) ==
    /\ \E k \in DOMAIN obs.plant : obs.plant[k] = px(11, 14, StemColour(b))
    /\ obs.stageIdx >= 2 => \E k \in DOMAIN obs.plant : obs.plant[k] = px(10, 13, LeafColour(b))

\* C19 as stated: health > 60 renders lush, health from 35 to 60 inclusive
\* stressed, health < 35 wilting; in particular 35 and 60 are both stressed.
C19_BandsAsStated ==
    obs.op = "render" =>
        ShowsBand(IF RLt(R(60), state.health) THEN "lush"
                  ELSE IF RLe(R(35), state.health) THEN "stressed" ELSE "wilting")

\* C19 amended: the colour pair is chosen by three bands that cover every
\* health in [0,100] exactly once: health > 60 is lush, 35 < health <= 60 is
\* stressed, health <= 35 is wilting; health exactly 60 renders stressed and
\* health exactly 35 renders wilting.
C19_HealthBands ==
    obs.op = "render" =>
        /\ RLt(R(60), state.health) => ShowsBand("lush")
        /\ (RLt(R(35), state.health) /\ RLe(state.health, R(60))) => ShowsBand("stressed")
        /\ RLe(state.health, R(35)) => ShowsBand("wilting")
        /\ Cardinality({b \in {"lush", "stressed", "wilting"} : ShowsBand(b)}) = 1

\* a plant with leaves and health exactly 35, drawn in the wilting colours
C19_Witness ==
    /\ obs.op = "render"
    /\ state.health = R(35)
    /\ obs.stageIdx >= 2
    /\ ShowsBand("wilting")

\* the leaf pairs the pixel scene shows: pair j is a left leaf rooted at
\* (11, 14 - 2j), placed first, and a right leaf rooted at (11, 13 - 2j);
\* no other green cell lies in the columns 10 to 12
PixelLeafPairs ==
    { j \in 1..3 :
        \E k1, k2 \in DOMAIN obs.plant :
            /\ k1 < k2
            /\ obs.plant[k1] = px(10, 14 - 2 * j, green(state.health))
            /\ obs.plant[k2] = px(12, 13 - 2 * j, green(state.health)) }

\* the leaf pairs the text scene shows: '<' left of the stem in row 13 - 2j
\* and '>' right of it in the row above
TextLeafPairs ==
    { j \in 1..3 : obs.ascii[<<15, 13 - 2 * j>>] = "<" /\ obs.ascii[<<17, 12 - 2 * j>>] = ">" }

\* the pairs due at stage index s when the first appears at stage index first
PairsFrom(first, s) == { j \in 1..3 : s >= first + j - 1 }

\* C20 as stated: in both pixel and text mode the leaf pairs appear exactly
\* at stage index >= 2, >= 3 and >= 4 (none at stage 0 or 1).
C20_LeavesAsStated ==
    obs.op = "render" =>
        /\ PixelLeafPairs = PairsFrom(2, obs.stageIdx)
        /\ obs.enabled => TextLeafPairs = PairsFrom(2, obs.stageIdx)

\* the cells of a list of pixels, and of a list of put() calls
PixelCells(w) == { <<w[k].x, w[k].y>> : k \in DOMAIN w }

PutCells(w) == { <<w[k][1], w[k][2]>> : k \in DOMAIN w }

\* C20 amended: the leaf pairs appear at stage index >= 2, >= 3, >= 4 in
\* pixel mode and at stage index >= 1, >= 2, >= 3 in text mode, each pair
\* left then right; the cells the leaf calls draw at a stage are a subset of
\* those drawn at every later stage; in text mode the curls drawn from
\* stage index 4 on overwrite the leaf tips at (14, 9) and (18, 10).
C20_LeafPairsByMode ==
    obs.op = "render" =>
        /\ PixelLeafPairs = PairsFrom(2, obs.stageIdx)
        /\ obs.enabled => TextLeafPairs = PairsFrom(1, obs.stageIdx)
        /\ \A s \in obs.stageIdx..(Len(STAGES) - 1) :
              /\ PixelCells(leafPixels(obs.stageIdx, "g")) \subseteq PixelCells(leafPixels(s, "g"))
              /\ PutCells(leafPuts(obs.stageIdx)) \subseteq PutCells(leafPuts(s))
        /\ obs.enabled =>
              /\ \A c \in PutCells(leafPuts(obs.stageIdx)) \ {<<14, 9>>, <<18, 10>>} :
                    obs.ascii[c] \in {"<", ">", "-"}
              /\ obs.stageIdx >= 4 <=> obs.ascii[<<14, 9>>] = "/"
              /\ obs.stageIdx >= 4 <=> obs.ascii[<<18, 10>>] = "\\"

\* a plant at stage index 1 drawn in both layers: one leaf pair in the text
\* scene, none in the pixel scene
C20_Witness ==
    /\ obs.op = "render"
    /\ obs.enabled
    /\ obs.stageIdx = 1
    /\ TextLeafPairs = {1}
    /\ PixelLeafPairs = {}

\* C22: the growth of a whole tick interval is computed from the hydration
\* and health reached at its end only: the growth added is the elapsed hours
\* times the rate of the final hydration and health, and a tick whose scaled
\* elapsed time is at least hydration/8 hours ends with hydration 0 and adds
\* exactly 0 growth, however long the interval, boost or no boost.
C22_GrowthFromEndOfInterval ==
    Ticked =>
        /\ state.growth =
              RAdd(obs.mid.growth,
                   RMul(obs.tk.hours,
                        growthRate(state.hydration, state.health, obs.tk.sunBoost)))
        /\ RLe(obs.mid.hydration, RMul(obs.tk.hours, R(8))) =>
              /\ state.hydration = R(0)
              /\ state.growth = obs.mid.growth

\* a tick of 15 scaled hours on a plant at hydration 70 or more with the
\* sunlight boost on: hydration ends at 0 and the growth is what it was
C22_Witness ==
    /\ obs.op = "tick"
    /\ obs.tk.hours = R(15)
    /\ obs.tk.sunBoost = Rat(135, 100)
    /\ RLe(R(70), obs.mid.hydration)
    /\ RLt(R(0), obs.mid.health)
    /\ state.hydration = R(0)
    /\ state.growth = obs.mid.growth

\* C21 as stated (its safety part): in a run without water, once hydration
\* and health have reached 0 they stay 0 and the growth stays what it is,
\* whatever else happens.
C21_NeglectAsStated ==
    [][(obs'.op # "water" /\ state.hydration = R(0) /\ state.health = R(0)) =>
          /\ state'.hydration = R(0)
          /\ state'.health = R(0)
          /\ state'.growth = state.growth]_vars

\* C21 amended: while the timer ticks keep firing with the clock advancing
\* and nobody waters or resets, no tick raises hydration or lowers growth,
\* hydration eventually reaches 0 and stays 0, every step from hydration 0
\* leaves hydration and growth unchanged, a tick from health 0 leaves health
\* 0, and in the runs without a sunlight action health eventually reaches 0
\* and stays 0 (a sunlight action raises it by 2 again; sunAt, once set,
\* stays set, so "no sunlight action in the run" is sunAt = -1 for ever).
C21_NeglectStallsGrowth ==
    /\ [][/\ RLe(state'.hydration, state.hydration)
          /\ RLe(state.growth, state'.growth)
          /\ state.hydration = R(0) =>
                state'.hydration = R(0) /\ state'.growth = state.growth
          /\ (obs'.op = "tick" /\ state.hydration = R(0) /\ state.health = R(0)) =>
                state'.health = R(0)]_vars
    /\ <>[](state.hydration = R(0))
    /\ <>[](sunAt # -1 \/ state.health = R(0))

\* a timer tick late in a run without sunlight, on a plant that grew before
\* it dried out: hydration and health were 0 and the growth is unchanged
C21_Witness ==
    /\ obs.op = "tick"
    /\ sunAt = -1
    /\ obs.t >= 23 * MS_PER_HOUR
    /\ obs.pre.hydration = R(0)
    /\ obs.pre.health = R(0)
    /\ RLt(R(0), state.growth)
    /\ ~(state.growth \in {R(14), R(149), R(150), R(229)})
    /\ state.growth = obs.pre.growth
====
